---- MODULE Spec2Model ----
(***************************************************************************)
(* Drift-detection and monitoring-cycle engine.                            *)
(*                                                                         *)
(* Part I  models src/monitoring-worker/worker.py: the worker's main       *)
(*         thread (MonitoringWorker.start), the monitoring cycle           *)
(*         (run_monitoring_cycle and its three steps) and the session's    *)
(*         transaction against PostgreSQL.            Specification: Spec  *)
(*         The same next to a store that may leave a statement             *)
(*         unanswered.                           Specification: SpecStall  *)
(*         The queries of _calculate_metrics and the row it stores.        *)
(*                                             Specification: SpecMetrics  *)
(* Part II models src/backend/app/services/monitoring_service.py:          *)
(*         MonitoringService.get_drift_report next to concurrent writers   *)
(*         of the predictions table.            Specification: SpecReport  *)
(*         Several report requests on the API process' event loop.         *)
(*                                          Specification: SpecConcurrent  *)
(*         Reports next to clients that submit feedback.                   *)
(*                                            Specification: SpecFeedback  *)
(* Part III models src/backend/app/ml/drift_detector.py: calculate_psi and *)
(*         ks_test applied to samples, detect_feature_drift applied to a   *)
(*         frame and itself.                     Specification: SpecStats  *)
(*         detect_feature_drift applied to frames and name lists.          *)
(*                                              Specification: SpecDetect  *)
(*                                                                         *)
(* Time is counted in whole seconds.  PSI scores are counted in            *)
(* hundredths (25 stands for 0.25), p-values in thousandths.               *)
(***************************************************************************)
EXTENDS Integers, Sequences, FiniteSets, TLC

VARIABLES
    now,          \* wall clock, seconds since the worker process started
    wpc,          \* position of the worker's main thread in start()
    cpc,          \* position inside run_monitoring_cycle ("idle": not running)
    inflight,     \* activations of run_monitoring_cycle entered and not left
    scheduled,    \* the schedule library holds the job (worker.py:229)
    next_run,     \* the job's next_run time
    aborted,      \* the session's transaction is in the failed state
    pending,      \* tables with a row inserted in the open transaction
    persisted,    \* tables whose row of the latest cycle is committed
    failed,       \* steps of the latest cycle whose try block raised
    trace,        \* calls made by the latest cycle, in order
    wrote,        \* tables the latest cycle's steps inserted a row into
    commitRaised, \* session.commit() raised in the latest cycle
    sigint,       \* KeyboardInterrupt: "none", "idle" (outside a cycle), "incycle"
    start_time,   \* start_time of the latest cycle (worker.py:41)
    last_cycle,   \* the latest cycle that returned, or None: its start and
                  \* end, whether it was rolled back, the tables it wrote
    \* --- Part II: the API server and its database
    clock,        \* wall clock of the API server, in hours
    predictions,  \* rows of the predictions table, in insertion order
    ground_truth, \* rows of the ground_truth table, in insertion order
    rpc,          \* position inside get_drift_report ("idle": no call)
    window,       \* <<start_time, end_time>> of the call
    baseline,     \* baseline_df: its source and the prediction rows in it
    current,      \* current_df: the prediction rows in it
    feature_drift,    \* feature_drift_reports of the call
    prediction_drift, \* prediction_drift of the call, None or Some
    performance,  \* performance_metrics of the call
    outcome,      \* "none", "report" (returned) or "error" (raised)
    report,       \* the returned report, None or Some
    stored,       \* what _store_drift_report did: "none", "stored", "logged"
    db_errors,    \* queries of the call on which the database raised
    np_rng,       \* numpy's global random state of the API process
    requests,     \* report requests accepted whose coroutine has not started
    served,       \* report calls that have returned to their caller
    \* --- Part III: one call of a function of the drift detector
    fn_call,      \* the function and its arguments
    fn_ret        \* what the call gave back, None before it

wvars == <<now, wpc, cpc, inflight, scheduled, next_run, aborted, pending,
           persisted, failed, trace, wrote, commitRaised, sigint, start_time,
           last_cycle>>

rvars == <<clock, predictions, ground_truth, rpc, window, baseline, current,
           feature_drift, prediction_drift, performance, outcome, report,
           stored, db_errors, np_rng>>

\* the API process' event loop
qvars == <<requests, served>>

svars == <<fn_call, fn_ret>>

vars == <<wvars, rvars, svars, qvars>>

(***************************************************************************)
(* Bounds of the model                                                     *)
(***************************************************************************)
\* the clock stops advancing at MaxTime
MaxTime == 22
\* a database call or a step takes 0..MaxStepTime seconds
MaxStepTime == 2

(***************************************************************************)
(* Program constants                                                       *)
(***************************************************************************)
\* worker.py:25, int(os.getenv("MONITORING_INTERVAL", "30")): the interval is
\* configuration; the model runs the worker with MONITORING_INTERVAL=3 so that
\* several intervals fit below MaxTime and a cycle can overrun the interval.
MONITORING_INTERVAL == 3
\* worker.py:225, time.sleep(10)
InitialDelay == 10
\* worker.py:237, time.sleep(1)
LoopSleep == 1
\* worker.py:243, time.sleep(5)
ErrorSleep == 5
\* worker.py:190, psutil.cpu_percent(interval=1) blocks for one second
CpuSampleInterval == 1
\* worker.py:154, baseline_fraud_rate = 0.02, in hundredths
BaselineFraudRate == 2
\* worker.py:157, abs(avg_proba - baseline_fraud_rate) > 0.03, in hundredths
DriftDelta == 3

\* AVG(prediction_proba) of the last hour in hundredths; NoAvg is the NULL of
\* an empty window
NoAvg == 0 - 1
AvgProbaValues == {0, 2, 5, 6}

Advance(d) == IF now + d > MaxTime THEN MaxTime ELSE now + d

Abs(x) == IF x < 0 THEN 0 - x ELSE x

\* Python's None and a present value
None == <<>>
Some(x) == <<x>>

(***************************************************************************)
(* Part I.  The monitoring worker                                          *)
(***************************************************************************)

\* The tables the three steps insert into.
TableOf(step) ==
    CASE step = "metrics" -> "metrics_history"
      [] step = "drift"   -> "alerts"
      [] step = "health"  -> "system_health"

\* schedule runs a job by calling it: the main thread is inside the call until
\* run_monitoring_cycle returns (worker.py:226 and schedule.run_pending at 236).
InCallThreaded(caller) == IF caller = "initial" THEN "register" ELSE "sleep"
InCall(caller) == IF caller = "initial" THEN "call_initial" ELSE "call_job"

\* run_monitoring_cycle, lines 39-43: a fresh session, nothing written yet.
StartCycle ==
    /\ cpc' = "metrics"
    /\ inflight' = inflight + 1
    /\ aborted' = FALSE
    /\ pending' = {}
    /\ persisted' = {}
    /\ failed' = {}
    /\ trace' = <<>>
    /\ wrote' = {}
    /\ commitRaised' = FALSE
    /\ start_time' = now
    /\ UNCHANGED last_cycle

\* start(), line 225: time.sleep(10)
SleepInitial ==
    /\ wpc = "startup"
    /\ now' = Advance(InitialDelay)
    /\ wpc' = "initial"
    /\ UNCHANGED <<cpc, inflight, scheduled, next_run, aborted, pending,
                   persisted, failed, trace, wrote, commitRaised, sigint,
                   start_time, last_cycle>>

\* start(), line 226: self.run_monitoring_cycle()
CallInitial ==
    /\ wpc = "initial"
    /\ wpc' = InCall("initial")
    /\ StartCycle
    /\ UNCHANGED <<now, scheduled, next_run, sigint>>

\* start(), line 229: schedule.every(MONITORING_INTERVAL).seconds.do(...)
Register ==
    /\ wpc = "register"
    /\ scheduled' = TRUE
    /\ next_run' = now + MONITORING_INTERVAL
    /\ wpc' = "loop"
    /\ UNCHANGED <<now, cpc, inflight, aborted, pending, persisted, failed,
                   trace, wrote, commitRaised, sigint,
                   start_time, last_cycle>>

\* schedule's Job.should_run: the job is due
ShouldRun == scheduled /\ now >= next_run

\* start(), line 236: schedule.run_pending() with the job due: the job runs
RunPendingDue ==
    /\ wpc = "loop"
    /\ ShouldRun
    /\ wpc' = InCall("loop")
    /\ StartCycle
    /\ UNCHANGED <<now, scheduled, next_run, sigint>>

\* start(), line 236: schedule.run_pending() with nothing due
RunPendingIdle ==
    /\ wpc = "loop"
    /\ ~ShouldRun
    /\ wpc' = "sleep"
    /\ UNCHANGED <<now, cpc, inflight, scheduled, next_run, aborted, pending,
                   persisted, failed, trace, wrote, commitRaised, sigint,
                   start_time, last_cycle>>

\* start(), line 237: time.sleep(1)
Sleep ==
    /\ wpc = "sleep"
    /\ now < MaxTime
    /\ now' = Advance(LoopSleep)
    /\ wpc' = "loop"
    /\ UNCHANGED <<cpc, inflight, scheduled, next_run, aborted, pending,
                   persisted, failed, trace, wrote, commitRaised, sigint,
                   start_time, last_cycle>>

\* The except clause of a step (lines 133-134, 180-181, 212-213) logs the
\* error and returns: the cycle goes on with the next call.
StepReraises(next) == "rollback"
StepFailure(next) == next

\* The except clause of run_monitoring_cycle (lines 60-62) logs and rolls
\* back; it has no raise, so the exception does not leave the cycle.
CycleExceptionReraised == TRUE
CycleExceptionEscapes == FALSE

\* run_monitoring_cycle, lines 45-54: the call that follows each call of the
\* try block
NextCallHealthFirst(call) ==
    IF call = "metrics" THEN "health"
    ELSE IF call = "health" THEN "drift" ELSE "commit"
NextCall(call) ==
    IF call = "metrics" THEN "drift"
    ELSE IF call = "drift" THEN "health" ELSE "commit"

\* The INSERT of a step (lines 115, 163, 195) is executed in the session's
\* transaction (sessionmaker(bind=engine), line 34: no autocommit): the step
\* itself makes nothing durable.
StepCommitsAutocommit(tables) == tables
StepCommits(tables) == {}

\* The body of one step.  d: seconds it takes; local: the calls that do not
\* touch the database return; dbok: the database accepts the statements;
\* inserts: the step reaches its INSERT.  In a failed transaction PostgreSQL
\* rejects every statement until the transaction ends.
RunStep(step, next, d, local, dbok, inserts) ==
    /\ now' = Advance(d)
    /\ trace' = Append(trace, step)
    /\ IF ~local
       THEN /\ failed' = failed \cup {step}
            /\ cpc' = StepFailure(next)
            /\ UNCHANGED <<aborted, pending, wrote, persisted>>
       ELSE IF aborted \/ ~dbok
       THEN /\ failed' = failed \cup {step}
            /\ aborted' = TRUE
            /\ cpc' = StepFailure(next)
            /\ UNCHANGED <<pending, wrote, persisted>>
       ELSE /\ pending' = IF inserts THEN pending \cup {TableOf(step)} ELSE pending
            /\ wrote' = IF inserts THEN wrote \cup {TableOf(step)} ELSE wrote
            /\ persisted' = IF inserts
                            THEN persisted \cup StepCommits({TableOf(step)})
                            ELSE persisted
            /\ cpc' = next
            /\ UNCHANGED <<aborted, failed>>
    /\ UNCHANGED <<wpc, inflight, scheduled, next_run, commitRaised,
                   sigint,
                   start_time, last_cycle>>

\* _calculate_metrics, lines 66-134: three SELECTs, then the INSERT into
\* metrics_history; every call is a database statement.
CalculateMetrics ==
    /\ cpc = "metrics"
    /\ \E d \in 0..MaxStepTime, dbok \in BOOLEAN :
          RunStep("metrics", NextCall("metrics"), d, TRUE, dbok, TRUE)

\* _check_drift, lines 152-157: an alert is inserted when the average is
\* neither NULL nor 0.0 (both falsy) and differs from the baseline by > 0.03.
DriftAlertDue(avg) ==
    /\ avg # NoAvg
    /\ avg # 0
    /\ Abs(avg - BaselineFraudRate) > DriftDelta

\* _check_drift, lines 136-181
CheckDrift ==
    /\ cpc = "drift"
    /\ \E d \in 0..MaxStepTime, dbok \in BOOLEAN,
          avg \in AvgProbaValues \cup {NoAvg} :
          RunStep("drift", NextCall("drift"), d, TRUE, dbok,
                  DriftAlertDue(avg))

\* _update_system_health, lines 183-213: psutil first (it samples the CPU for
\* one second), then the INSERT into system_health.
UpdateSystemHealth ==
    /\ cpc = "health"
    /\ \E d \in CpuSampleInterval..MaxStepTime, local \in BOOLEAN,
          dbok \in BOOLEAN :
          RunStep("health", NextCall("health"), d, local, dbok, TRUE)

\* run_monitoring_cycle, line 54: session.commit().  The COMMIT of a failed
\* transaction is answered by a rollback and no error; a commit may also raise
\* (lines 60-62 then run).
Commit ==
    /\ cpc = "commit"
    /\ trace' = Append(trace, "commit")
    /\ \E raises \in BOOLEAN :
          IF raises
          THEN /\ commitRaised' = TRUE
               /\ cpc' = "rollback"
               /\ UNCHANGED <<persisted, pending, aborted>>
          ELSE /\ persisted' = IF aborted THEN {} ELSE pending
               /\ pending' = {}
               /\ aborted' = FALSE
               /\ cpc' = "close"
               /\ UNCHANGED commitRaised
    /\ UNCHANGED <<now, wpc, inflight, scheduled, next_run, failed, wrote,
                   sigint,
                   start_time, last_cycle>>

\* run_monitoring_cycle, lines 60-62: session.rollback()
Rollback ==
    /\ cpc = "rollback"
    /\ trace' = Append(trace, "rollback")
    /\ pending' = {}
    /\ aborted' = FALSE
    /\ cpc' = "close"
    /\ UNCHANGED <<now, wpc, inflight, scheduled, next_run, persisted, failed,
                   wrote, commitRaised, sigint,
                   start_time, last_cycle>>

InTrace(call) == \E i \in 1..Len(trace) : trace[i] = call

\* schedule's Job.run, called by run_pending (line 236): when the job function
\* has returned, the job's next run is set to that moment plus the interval,
\* whatever the time it had been due at.
NextRunFixedRate(due, returned) == due + MONITORING_INTERVAL
NextRun(due, returned) == returned + MONITORING_INTERVAL

\* run_monitoring_cycle, lines 63-64: session.close(), and the return to the
\* caller.  A KeyboardInterrupt that passed through the cycle ends the loop
\* (lines 238-240) or, in the initial cycle of line 226, the process.  After a
\* normal return from a scheduled run the schedule library sets the job's
\* next_run to the time of the return plus the interval.
Close ==
    /\ cpc = "close"
    /\ trace' = Append(trace, "close")
    /\ cpc' = "idle"
    /\ inflight' = inflight - 1
    /\ pending' = {}
    /\ aborted' = FALSE
    /\ IF sigint = "incycle"
       THEN /\ wpc' = IF wpc = "call_initial" THEN "killed"
                      ELSE IF wpc = "call_job" THEN "stopped" ELSE wpc
            /\ UNCHANGED <<now, next_run>>
       ELSE IF CycleExceptionEscapes /\ InTrace("rollback")
       THEN \* lines 241-243: logged, time.sleep(5); line 226 has no handler
            /\ wpc' = IF wpc = "call_initial" THEN "crashed"
                      ELSE IF wpc = "call_job" THEN "loop" ELSE wpc
            /\ now' = IF wpc = "call_job" THEN Advance(ErrorSleep) ELSE now
            /\ UNCHANGED next_run
       ELSE /\ wpc' = IF wpc = "call_initial" THEN "register"
                      ELSE IF wpc = "call_job" THEN "sleep" ELSE wpc
            /\ next_run' = IF wpc = "call_job" THEN NextRun(next_run, now)
                           ELSE next_run
            /\ UNCHANGED now
    /\ last_cycle' = Some([start |-> start_time, end |-> now,
                           rolled_back |-> InTrace("rollback"),
                           wrote |-> wrote])
    /\ UNCHANGED <<scheduled, persisted, failed, wrote, commitRaised, sigint,
                   start_time>>

\* A KeyboardInterrupt is raised in the main thread at the statement it is
\* executing.  It is no Exception: the except clauses of the steps and of the
\* cycle (lines 60, 133, 180, 212) do not catch it, the finally clause of line
\* 63 runs, and only the loop's handler of lines 238-240 catches it.
Interrupt ==
    /\ sigint = "none"
    /\ \/ /\ wpc \in {"startup", "initial", "register"}
          /\ wpc' = "killed"
          /\ sigint' = "idle"
          /\ UNCHANGED cpc
       \/ /\ wpc \in {"loop", "sleep"}
          /\ wpc' = "stopped"
          /\ sigint' = "idle"
          /\ UNCHANGED cpc
       \/ /\ wpc \in {"call_initial", "call_job"}
          /\ cpc \in {"metrics", "drift", "health", "commit"}
          /\ cpc' = "close"
          /\ sigint' = "incycle"
          /\ UNCHANGED wpc
    /\ UNCHANGED <<now, inflight, scheduled, next_run, aborted, pending,
                   persisted, failed, trace, wrote, commitRaised, start_time,
                   last_cycle>>

\* A statement sent to the store is not answered.  The engine is created
\* with pool_pre_ping only (line 33): no connect_timeout, no statement_timeout,
\* no timeout on session.execute or session.commit (lines 75-128, 54), so the
\* call waits on the connection and no statement of the worker follows it.
StoreCallBlocks ==
    /\ wpc \in {"call_initial", "call_job"}
    /\ cpc \in {"metrics", "drift", "health", "commit"}
    /\ cpc' = "blocked"
    /\ UNCHANGED <<now, wpc, inflight, scheduled, next_run, aborted, pending,
                   persisted, failed, trace, wrote, commitRaised, sigint,
                   start_time, last_cycle>>

\* The state after MonitoringWorker() is constructed and start() is entered.
InitWorker ==
    /\ now = 0
    /\ wpc = "startup"
    /\ cpc = "idle"
    /\ inflight = 0
    /\ scheduled = FALSE
    /\ next_run = 0
    /\ aborted = FALSE
    /\ pending = {}
    /\ persisted = {}
    /\ failed = {}
    /\ trace = <<>>
    /\ wrote = {}
    /\ commitRaised = FALSE
    /\ sigint = "none"
    /\ start_time = 0
    /\ last_cycle = None

\* The statements of the worker's single thread.
WorkerStep ==
    \/ SleepInitial
    \/ CallInitial
    \/ Register
    \/ RunPendingDue
    \/ RunPendingIdle
    \/ Sleep
    \/ CalculateMetrics
    \/ CheckDrift
    \/ UpdateSystemHealth
    \/ Commit
    \/ Rollback
    \/ Close

(***************************************************************************)
(* Part II.  MonitoringService.get_drift_report                            *)
(***************************************************************************)
\* Bounds
MaxClock == 2
MaxPredictions == 2
MaxFeedback == 2
\* report requests of one run of the API process
MaxRequests == 2

\* monitoring_service.py:187, .limit(10000)
BaselineLimit == 10000
\* config.py:23, PSI_THRESHOLD = 0.25, in hundredths
PSI_THRESHOLD == 25
\* config.py:24, KS_THRESHOLD = 0.05, in thousandths
KS_THRESHOLD == 50
\* monitoring_service.py:96, high_severity_count >= 2
CriticalHighCount == 2

\* Two of the twelve feature columns (data_generator.py:19-32), in column
\* order; every prediction row carries both.
FeatureNames == <<"amount", "hour_of_day">>
\* PSI scores a feature can get, in hundredths: one per severity band
PsiValues == {9, 10, 25, 50}
\* KS p-values of the prediction scores, in thousandths
KsPValues == {49, 50}
\* KS p-values of the features of a report: above the threshold
FeatureKsPValues == {500}
\* the hours argument of a call
HoursValues == {1, 2}

Range(f) == {f[i] : i \in DOMAIN f}

Min(a, b) == IF a < b THEN a ELSE b

\* drift_detector.py:183-190: severity from the PSI score
SeverityOpenBands(psi) ==
    IF psi > 50 THEN "high"
    ELSE IF psi > 25 THEN "medium"
    ELSE IF psi > 10 THEN "low"
    ELSE "none"
Severity(psi) ==
    IF psi >= 50 THEN "high"
    ELSE IF psi >= 25 THEN "medium"
    ELSE IF psi >= 10 THEN "low"
    ELSE "none"

\* drift_detector.py:179-180 and 224: the status comes from psi_drifted;
\* ks_drifted is computed at line 180 and used nowhere.
StatusPsiOrKs(psi, ks_p_value, threshold) ==
    IF psi >= threshold \/ ks_p_value < KS_THRESHOLD
    THEN "drifted" ELSE "stable"
Status(psi, ks_p_value, threshold) ==
    IF psi >= threshold THEN "drifted" ELSE "stable"

\* drift_detector.py:219-234: the result for one feature
FeatureResult(name, psi, ks_p_value, threshold) ==
    [feature_name |-> name,
     drift_score  |-> psi,
     threshold    |-> threshold,
     status       |-> Status(psi, ks_p_value, threshold),
     severity     |-> Severity(psi),
     ks_p_value   |-> ks_p_value]

\* drift_detector.py:162-238, the loop over the feature names: a name that
\* is not a column of both frames is skipped, every other name appends its
\* result.  psi and ksp map a feature to what calculate_psi and ks_test
\* return for its two columns.
RECURSIVE DetectLoop(_, _, _, _, _, _)
DetectLoop(names, bcols, ccols, psi, ksp, threshold) ==
    IF names = <<>> THEN <<>>
    ELSE LET feature == Head(names)
             rest == DetectLoop(Tail(names), bcols, ccols, psi, ksp, threshold)
         IN  IF feature \notin Range(bcols) \/ feature \notin Range(ccols)
             THEN rest
             ELSE <<FeatureResult(feature, psi[feature], ksp[feature],
                                  threshold)>> \o rest

\* drift_detector.py:142-238, detect_feature_drift.  feature_names: None
\* (the default) or Some sequence of names; bcols, ccols: the columns of the
\* baseline and of the current frame.
DetectFeatureDriftColumnOrder(feature_names, bcols, ccols, psi, ksp, threshold) ==
    LET asked(name) == feature_names = None \/ name \in Range(feature_names[1])
    IN  DetectLoop(SelectSeq(bcols, asked), bcols, ccols, psi, ksp, threshold)
DetectFeatureDrift(feature_names, bcols, ccols, psi, ksp, threshold) ==
    DetectLoop(IF feature_names = None THEN bcols ELSE feature_names[1],
               bcols, ccols, psi, ksp, threshold)

\* drift_detector.py:240-275, detect_prediction_drift: KS test only
PredictionDrift(p_value) ==
    [method  |-> "KS_test",
     p_value |-> p_value,
     status  |-> IF p_value < KS_THRESHOLD THEN "drifted" ELSE "stable"]

\* monitoring_service.py:315-325, _get_recommendation
Recommendation(r) ==
    IF r.severity = "high" THEN "investigate_and_retrain"
    ELSE IF r.severity = "medium" THEN "monitor_and_plan_retraining"
    ELSE "continue_monitoring"

\* monitoring_service.py:298: the results that alert
AlertsOnAll(r) == TRUE
AlertsOn(r) == r.severity \in {"high", "medium"}

\* monitoring_service.py:289-313, _generate_alerts
GenerateAlerts(results) ==
    LET hits == SelectSeq(results, AlertsOn)
    IN  [i \in 1..Len(hits) |->
            [type           |-> "data_drift",
             severity       |-> hits[i].severity,
             feature_name   |-> hits[i].feature_name,
             recommendation |-> Recommendation(hits[i])]]

\* monitoring_service.py:84-86
DataDriftDetected(results) ==
    \E i \in 1..Len(results) : results[i].status = "drifted"

\* monitoring_service.py:88-90
ConceptDriftDetected(pdrift) ==
    IF pdrift # None THEN pdrift[1].status = "drifted" ELSE FALSE

\* monitoring_service.py:92-94
HighSeverityCount(results) ==
    Cardinality({i \in 1..Len(results) : results[i].severity = "high"})

\* monitoring_service.py:96-101
OverallStatusWarningFirst(results, pdrift) ==
    IF DataDriftDetected(results) \/ ConceptDriftDetected(pdrift) THEN "warning"
    ELSE IF HighSeverityCount(results) >= CriticalHighCount THEN "critical"
    ELSE "healthy"
OverallStatus(results, pdrift) ==
    IF HighSeverityCount(results) >= CriticalHighCount THEN "critical"
    ELSE IF DataDriftDetected(results) \/ ConceptDriftDetected(pdrift) THEN "warning"
    ELSE "healthy"

\* The filter of lines 208-211, 227-230 and 251-254:
\* prediction_timestamp >= start_time and prediction_timestamp <= end_time
InWindow(ts, w) == ts >= w[1] /\ ts <= w[2]

\* the rows of the predictions table the filter selects
WindowRows(w) == {i \in 1..Len(predictions) : InWindow(predictions[i].ts, w)}

\* monitoring_service.py:244-254: predictions joined to ground_truth on
\* transaction_id, filtered by the window: one pair per matching label row
LabelledPairs(w) ==
    {g \in 1..Len(ground_truth) : ground_truth[g].tid \in WindowRows(w)}

AllNone ==
    [accuracy |-> None, precision |-> None, recall |-> None,
     f1_score |-> None, auc_roc |-> None]

\* sklearn's metrics over the pairs, as <<numerator, denominator>>;
\* zero_division=0 gives <<0, 1>>
Ratio(n, d) == IF d = 0 THEN <<0, 1>> ELSE <<n, d>>

\* monitoring_service.py:274: roc_auc_score is called only when y_true has
\* more than one class.  classes: np.unique(y_true).
AucRocAlways(classes) == Some("roc_auc_score")
AucRoc(classes) ==
    IF Cardinality(classes) > 1 THEN Some("roc_auc_score") ELSE None

\* monitoring_service.py:234-287, _calculate_performance_metrics.  dbok is
\* FALSE when the query raises: lines 279-287 log it and return the all-None
\* snapshot.
PerformanceMetrics(w, dbok) ==
    LET pairs == LabelledPairs(w)
        pred(g) == predictions[ground_truth[g].tid].prediction
        true(g) == ground_truth[g].label
        tp == Cardinality({g \in pairs : pred(g) = 1 /\ true(g) = 1})
        fp == Cardinality({g \in pairs : pred(g) = 1 /\ true(g) = 0})
        fn == Cardinality({g \in pairs : pred(g) = 0 /\ true(g) = 1})
        ok == Cardinality({g \in pairs : pred(g) = true(g)})
    IN  IF ~dbok \/ pairs = {} THEN AllNone
        ELSE [accuracy  |-> Some(<<ok, Cardinality(pairs)>>),
              precision |-> Some(Ratio(tp, tp + fp)),
              recall    |-> Some(Ratio(tp, tp + fn)),
              f1_score  |-> Some(Ratio(2 * tp, 2 * tp + fp + fn)),
              auc_roc   |-> AucRoc({true(g) : g \in pairs})]

\* config.py:19
MODEL_VERSION == "xgb_v1.0.0"

\* Python's {}
EmptyDict == [k \in {} |-> None]

\* monitoring_service.py:336-353, _empty_report
EmptyReportHealthy(w) ==
    [report_timestamp    |-> clock,
     time_window         |-> w,
     total_predictions   |-> 0,
     model_version       |-> MODEL_VERSION,
     health              |-> "healthy",
     data_drift_detected |-> FALSE,
     concept_drift_detected |-> FALSE,
     performance_degraded   |-> FALSE,
     feature_drift       |-> <<>>,
     prediction_drift    |-> None,
     performance_metrics |-> EmptyDict,
     alerts              |-> <<>>]
EmptyReport(w) ==
    [report_timestamp    |-> clock,
     time_window         |-> w,
     model_version       |-> MODEL_VERSION,
     total_predictions   |-> 0,
     health              |-> "unknown",
     data_drift_detected |-> FALSE,
     concept_drift_detected |-> FALSE,
     performance_degraded   |-> FALSE,
     feature_drift       |-> <<>>,
     prediction_drift    |-> None,
     performance_metrics |-> EmptyDict,
     alerts              |-> <<>>]

\* monitoring_service.py:83-122: the report built from the results of the call
BuildReport(w, n, results, pdrift, perf) ==
    [report_timestamp    |-> clock,
     time_window         |-> w,
     model_version       |-> MODEL_VERSION,
     total_predictions   |-> n,
     health              |-> OverallStatus(results, pdrift),
     data_drift_detected |-> DataDriftDetected(results),
     concept_drift_detected |-> ConceptDriftDetected(pdrift),
     performance_degraded   |-> FALSE,
     feature_drift       |-> results,
     prediction_drift    |-> pdrift,
     performance_metrics |-> perf,
     alerts              |-> GenerateAlerts(results)]

\* numpy's global random state: how it was seeded and how many frames have
\* been drawn from it since
RngOfProcess == [seed |-> "os", drawn |-> 0]
RngSeeded == [seed |-> "42", drawn |-> 0]
NoFrame == [seed |-> "none", drawn |-> 0]

\* data_generator.py:15-18, SyntheticDataGenerator.__init__:
\* np.random.seed(seed) sets the global state, whatever it was
SeedRngOnce(rng) == IF rng.seed = "os" THEN RngSeeded ELSE rng
SeedRng(rng) == RngSeeded

\* generate_baseline_data draws the frame from the global state and moves it
Draw(rng) == [rng EXCEPT !.drawn = @ + 1]

NoBaseline == [source |-> "none", rows |-> {}, frame |-> NoFrame]

\* The variables of one call, before and after it.
NoCall ==
    /\ window' = <<0, 0>>
    /\ baseline' = NoBaseline
    /\ current' = {}
    /\ feature_drift' = <<>>
    /\ prediction_drift' = None
    /\ performance' = AllNone
    /\ outcome' = "none"
    /\ report' = None
    /\ stored' = "none"
    /\ db_errors' = {}

\* monitoring_service.py:129-131: logged and raised to the caller
Raise ==
    /\ rpc' = "done"
    /\ outcome' = "error"
    /\ report' = None

\* a query of the call raised (the database is down, a statement timed out):
\* nothing between the query and line 129 catches it
DbRaise(query) ==
    /\ Raise
    /\ db_errors' = db_errors \cup {query}

\* time passes on the API server
Tick ==
    /\ clock < MaxClock
    /\ clock' = clock + 1
    /\ UNCHANGED <<predictions, ground_truth, rpc, window, baseline, current,
                   feature_drift, prediction_drift, performance, outcome,
                   report, stored, db_errors, np_rng>>

\* prediction_service.py:41-64, make_prediction: the row is stamped with the
\* request's timestamp, or with utcnow() when the request has none.
\* times: the timestamps of the requests; labels: the classes the model
\* answers with.
MakePredictionAt(times, labels) ==
    /\ Len(predictions) < MaxPredictions
    /\ \E ts \in times, label \in labels :
          predictions' = Append(predictions, [ts |-> ts, prediction |-> label])
    /\ UNCHANGED <<clock, ground_truth, rpc, window, baseline, current,
                   feature_drift, prediction_drift, performance, outcome,
                   report, stored, db_errors, np_rng>>

MakePrediction(labels) == MakePredictionAt(0..MaxClock, labels)

\* prediction_service.py:117-137, submit_feedback: a label row for an
\* existing prediction
SubmitFeedback ==
    /\ Len(ground_truth) < MaxFeedback
    /\ \E tid \in 1..Len(predictions), label \in {0, 1} :
          ground_truth' = Append(ground_truth, [tid |-> tid, label |-> label])
    /\ UNCHANGED <<clock, predictions, rpc, window, baseline, current,
                   feature_drift, prediction_drift, performance, outcome,
                   report, stored, db_errors, np_rng>>

\* get_drift_report, lines 45-51: the window of the call
CallReport ==
    /\ rpc = "idle"
    /\ \E hours \in HoursValues : window' = <<clock - hours, clock>>
    /\ rpc' = "baseline"
    /\ UNCHANGED <<clock, predictions, ground_truth, baseline, current,
                   feature_drift, prediction_drift, performance, outcome,
                   report, stored, db_errors, np_rng>>

\* _get_baseline_features, lines 183-200: the first 10000 prediction rows, or
\* the synthetic generator's frame when the table is empty
BaselineFeatures ==
    IF predictions = <<>>
    THEN [source |-> "synthetic", rows |-> {}, frame |-> SeedRng(np_rng)]
    ELSE [source |-> "persisted",
          rows   |-> 1..Min(Len(predictions), BaselineLimit),
          frame  |-> NoFrame]

\* get_drift_report, line 54
GetBaseline ==
    /\ rpc = "baseline"
    /\ \E dbok \in BOOLEAN :
          IF dbok
          THEN /\ baseline' = BaselineFeatures
               /\ np_rng' = IF predictions = <<>>
                            THEN Draw(SeedRng(np_rng)) ELSE np_rng
               /\ rpc' = "current"
               /\ UNCHANGED <<outcome, report, db_errors>>
          ELSE DbRaise("baseline") /\ UNCHANGED <<baseline, np_rng>>
    /\ UNCHANGED <<clock, predictions, ground_truth, window, current,
                   feature_drift, prediction_drift, performance, stored>>

\* get_drift_report, lines 57-66: the current frame; the empty report when it
\* has no rows, the feature drift results otherwise
\* psis: the PSI scores the features of the window can have
GetCurrentWith(psis) ==
    /\ rpc = "current"
    /\ \E dbok \in BOOLEAN, psi \in [Range(FeatureNames) -> psis],
          ksp \in [Range(FeatureNames) -> FeatureKsPValues] :
          IF ~dbok
          THEN DbRaise("current") /\ UNCHANGED <<current, feature_drift>>
          ELSE /\ current' = WindowRows(window)
               /\ UNCHANGED db_errors
               /\ IF WindowRows(window) = {}
                  THEN /\ report' = Some(EmptyReport(window))
                       /\ outcome' = "report"
                       /\ rpc' = "done"
                       /\ UNCHANGED feature_drift
                  ELSE /\ feature_drift' =
                             DetectFeatureDrift(None, FeatureNames,
                                                FeatureNames, psi, ksp,
                                                PSI_THRESHOLD)
                       /\ rpc' = "scores"
                       /\ UNCHANGED <<outcome, report>>
    /\ UNCHANGED <<clock, predictions, ground_truth, window, baseline,
                   prediction_drift, performance, stored, np_rng>>

GetCurrent == GetCurrentWith(PsiValues)

\* get_drift_report, lines 69-78: the scores of the window, read again, and
\* the prediction drift when there are any
GetScores ==
    /\ rpc = "scores"
    /\ \E dbok \in BOOLEAN, p_value \in KsPValues :
          IF ~dbok
          THEN DbRaise("scores") /\ UNCHANGED prediction_drift
          ELSE /\ UNCHANGED db_errors
               /\ prediction_drift' =
                     IF WindowRows(window) # {}
                     THEN Some(PredictionDrift(p_value)) ELSE None
               /\ rpc' = "perf"
               /\ UNCHANGED <<outcome, report>>
    /\ UNCHANGED <<clock, predictions, ground_truth, window, baseline, current,
                   feature_drift, performance, stored, np_rng>>

\* get_drift_report, line 81
GetPerformance ==
    /\ rpc = "perf"
    /\ \E dbok \in BOOLEAN :
          /\ performance' = PerformanceMetrics(window, dbok)
          /\ db_errors' = IF dbok THEN db_errors ELSE db_errors \cup {"pairs"}
    /\ rpc' = "finish"
    /\ UNCHANGED <<clock, predictions, ground_truth, window, baseline, current,
                   feature_drift, prediction_drift, outcome, report, stored,
                   np_rng>>

\* _store_drift_report, lines 327-334: the body is inside try/except
\* Exception, so an error of the store is logged and does not leave it.
StoreErrorRaised(storeok) == ~storeok
StoreErrorEscapes(storeok) == FALSE

\* get_drift_report, lines 83-127: health, alerts, the report, the store and
\* the return
Finish ==
    /\ rpc = "finish"
    /\ \E storeok \in BOOLEAN :
          IF StoreErrorEscapes(storeok)
          THEN Raise /\ stored' = "raised"
          ELSE /\ report' = Some(BuildReport(window, Cardinality(current),
                                             feature_drift, prediction_drift,
                                             performance))
               /\ stored' = IF storeok THEN "stored" ELSE "logged"
               /\ outcome' = "report"
               /\ rpc' = "done"
    /\ UNCHANGED <<clock, predictions, ground_truth, window, baseline, current,
                   feature_drift, prediction_drift, performance, db_errors,
                   np_rng>>

\* api/monitoring.py:15-30, get_latest_drift_report: the report is the
\* response body; any exception of the service becomes HTTPException(500)
HttpStatus(result) == IF result = "error" THEN 500 ELSE 200

\* the caller has the result; the service object is dropped
Return ==
    /\ rpc = "done"
    /\ rpc' = "idle"
    /\ NoCall
    /\ UNCHANGED <<clock, predictions, ground_truth, np_rng>>

InitReport ==
    /\ clock = 0
    /\ predictions = <<>>
    /\ ground_truth = <<>>
    /\ rpc = "idle"
    /\ window = <<0, 0>>
    /\ baseline = NoBaseline
    /\ current = {}
    /\ feature_drift = <<>>
    /\ prediction_drift = None
    /\ performance = AllNone
    /\ outcome = "none"
    /\ report = None
    /\ stored = "none"
    /\ db_errors = {}
    /\ np_rng = RngOfProcess

\* A client's GET /drift/latest is accepted; its coroutine waits for the
\* event loop.
Request ==
    /\ requests + served + (IF rpc = "idle" THEN 0 ELSE 1) < MaxRequests
    /\ requests' = requests + 1
    /\ UNCHANGED served

\* The event loop runs the coroutine of a waiting request.  get_drift_report
\* and the functions it calls have no await: the loop runs no other coroutine
\* before the call returns (CallReport starts from rpc = "idle").
ServeRequest ==
    /\ requests > 0
    /\ requests' = requests - 1
    /\ CallReport
    /\ UNCHANGED served

\* api/monitoring.py:27-28: the response goes out
Respond ==
    /\ Return
    /\ served' = served + 1
    /\ UNCHANGED requests

InitLoop ==
    /\ requests = 0
    /\ served = 0

(***************************************************************************)
(* Part III: the statistical primitives of drift_detector.py               *)
(***************************************************************************)
\* a sample has 0..MaxLen elements
MaxLen == 2
\* drift_detector.py:35, self.n_bins
N_BINS == 10
\* drift_detector.py:95, epsilon = 1e-10: 1000 * ln(1e-10)
LnEpsilon == 0 - 23026

\* The elements of a numpy array: a number, NaN, or an object that is not a
\* number (a string of a JSON feature), which makes the array's dtype object.
Num(x) == [kind |-> "num", v |-> x]
NaN == [kind |-> "nan", v |-> 0]
Text == [kind |-> "text", v |-> 0]
SampleValues == {Num(0), Num(1), Num(2), NaN, Text}
Samples == UNION {[1..n -> SampleValues] : n \in 0..MaxLen}

\* np.isnan(a): TypeError on an array whose dtype is not numeric
IsNanRaises(a) == \E i \in DOMAIN a : a[i].kind = "text"

\* a[~np.isnan(a)], lines 65-66 and 129-130, as the sequence of the numbers
RECURSIVE DropNaN(_)
DropNaN(a) ==
    IF a = <<>> THEN <<>>
    ELSE IF Head(a).kind = "nan" THEN DropNaN(Tail(a))
    ELSE <<Head(a).v>> \o DropNaN(Tail(a))

SeqMin(a) == CHOOSE x \in Range(a) : \A y \in Range(a) : x <= y
SeqMax(a) == CHOOSE x \in Range(a) : \A y \in Range(a) : x >= y

\* np.histogram over np.linspace(lo, hi, n + 1) with the outer edges moved to
\* -inf and +inf, lines 82-88: bin i is [lo + i*(hi-lo)/n, lo + (i+1)*(hi-lo)/n),
\* the last bin is closed.
BinOf(x, lo, hi, n) == Min(((x - lo) * n) \div (hi - lo), n - 1)
Histogram(a, lo, hi, n) ==
    [i \in 0..(n - 1) |->
        Cardinality({k \in DOMAIN a : BinOf(a[k], lo, hi, n) = i})]

\* 1000 * ln(k) for k = 1..10, rounded
LnTable == <<0, 693, 1099, 1386, 1609, 1792, 1946, 2079, 2197, 2303>>
\* 1000 * np.log(count / size + epsilon), lines 91-97 and 102
LnPercent(count, size) ==
    IF count = 0 THEN LnEpsilon ELSE LnTable[count] - LnTable[size]

RECURSIVE SumBins(_, _)
SumBins(f, n) == IF n = 0 THEN 0 ELSE f[n - 1] + SumBins(f, n - 1)

\* lines 100-103: sum((current% - baseline%) * ln(current% / baseline%)), in
\* hundredths
PsiOfCountsSmoothed(bc, cc, B, C, n) ==
    LET term == [i \in 0..(n - 1) |->
                    ((cc[i] + 1) * B - bc[i] * C)
                        * (LnPercent(cc[i] + 1, C) - LnPercent(bc[i], B))]
    IN  SumBins(term, n) \div (B * C * 10)
PsiOfCounts(bc, cc, B, C, n) ==
    LET term == [i \in 0..(n - 1) |->
                    (cc[i] * B - bc[i] * C)
                        * (LnPercent(cc[i], C) - LnPercent(bc[i], B))]
    IN  SumBins(term, n) \div (B * C * 10)

Returns(x) == [raised |-> FALSE, value |-> x]
Raises(x) == [raised |-> TRUE, value |-> x]

\* drift_detector.py:37-109, calculate_psi.  fault: a statement of the try
\* block raises (lines 107-109 log it and return 0.0).
calculate_psi(baseline_arr, current_arr, n_bins, fault) ==
    IF IsNanRaises(baseline_arr) \/ IsNanRaises(current_arr)
    THEN Raises("TypeError")
    ELSE LET b == DropNaN(baseline_arr)
             c == DropNaN(current_arr)
             min_val == Min(SeqMin(b), SeqMin(c))
             max_val == 0 - Min(0 - SeqMax(b), 0 - SeqMax(c))
         IN  IF Len(b) = 0 \/ Len(c) = 0 THEN Returns(0)
             ELSE IF fault THEN Returns(0)
             ELSE IF min_val = max_val THEN Returns(0)
             ELSE Returns(PsiOfCounts(Histogram(b, min_val, max_val, n_bins),
                                      Histogram(c, min_val, max_val, n_bins),
                                      Len(b), Len(c), n_bins))

\* scipy.stats.ks_2samp's statistic, the largest distance between the two
\* empirical distribution functions, in thousandths
KsStatistic(b, c) ==
    LET below(a, x) == Cardinality({k \in DOMAIN a : a[k] <= x})
        dist(x) == Abs(below(b, x) * Len(c) - below(c, x) * Len(b))
        pts == Range(b) \cup Range(c)
        far == CHOOSE x \in pts : \A y \in pts : dist(x) >= dist(y)
    IN  (dist(far) * 1000) \div (Len(b) * Len(c))

\* drift_detector.py:111-140, ks_test.  p_value: the p-value scipy gives two
\* samples that differ; it is 1.0 for samples with the same distribution
\* function.
ks_test(baseline_arr, current_arr, fault, p_value) ==
    IF IsNanRaises(baseline_arr) \/ IsNanRaises(current_arr)
    THEN Raises("TypeError")
    ELSE LET b == DropNaN(baseline_arr)
             c == DropNaN(current_arr)
         IN  IF Len(b) = 0 \/ Len(c) = 0 THEN Returns(<<0, 1000>>)
             ELSE IF fault THEN Returns(<<0, 1000>>)
             ELSE IF KsStatistic(b, c) = 0 THEN Returns(<<0, 1000>>)
             ELSE Returns(<<KsStatistic(b, c), p_value>>)

NoFn == [fn |-> "none"]

PsiCalls ==
    [fn : {"calculate_psi"}, baseline : Samples, current : Samples,
     n_bins : {2, N_BINS}, fault : BOOLEAN]
KsCalls ==
    [fn : {"ks_test"}, baseline : Samples, current : Samples,
     p_value : KsPValues, fault : BOOLEAN]

CallPsi ==
    /\ fn_call.fn = "calculate_psi"
    /\ fn_ret = None
    /\ fn_ret' = Some(calculate_psi(fn_call.baseline, fn_call.current,
                                    fn_call.n_bins, fn_call.fault))
    /\ UNCHANGED fn_call

CallKs ==
    /\ fn_call.fn = "ks_test"
    /\ fn_ret = None
    /\ fn_ret' = Some(ks_test(fn_call.baseline, fn_call.current,
                              fn_call.fault, fn_call.p_value))
    /\ UNCHANGED fn_call

\* a list of requested feature names has 0..MaxNames entries
MaxNames == 3
\* the features that can be columns of a frame, and the names a caller can
\* ask for
ColumnNames == Range(FeatureNames)
AskedNames == ColumnNames \cup {"unknown"}
\* the columns of a frame, in their order
ColumnLists ==
    {c \in UNION {[1..n -> ColumnNames] : n \in 0..Cardinality(ColumnNames)} :
        \A i, j \in DOMAIN c : i # j => c[i] # c[j]}
NameLists == UNION {[1..n -> AskedNames] : n \in 0..MaxNames}
\* PSI scores on both sides of every band's edge, in hundredths
DetectPsiValues == {9, 10, 24, 25, 49, 50}
\* config.py:23, PSI_THRESHOLD is configuration: the default and a lower one
ThresholdValues == {10, PSI_THRESHOLD}

\* A DataFrame: its rows, each with a value for every column; a frame
\* without rows has no columns.
Frames == UNION {[1..n -> [ColumnNames -> SampleValues]] : n \in 0..MaxLen}
Columns(df) == IF df = <<>> THEN <<>> ELSE FeatureNames
\* df[feature].values
ColumnValues(df, feature) == [i \in DOMAIN df |-> df[i][feature]]

\* drift_detector.py:142-238, detect_feature_drift on two frames with
\* feature_names = None: calculate_psi and ks_test (lines 173 and 176) are
\* called on the columns, and what they raise leaves the function.
DetectOnFrames(baseline_df, current_df, threshold, fault, p_value) ==
    LET both == {f \in Range(Columns(baseline_df)) :
                    f \in Range(Columns(current_df))}
        psi == [f \in both |->
                   calculate_psi(ColumnValues(baseline_df, f),
                                 ColumnValues(current_df, f), N_BINS, fault)]
        ks == [f \in both |->
                  ks_test(ColumnValues(baseline_df, f),
                          ColumnValues(current_df, f), fault, p_value)]
    IN  IF \E f \in both : psi[f].raised \/ ks[f].raised
        THEN Raises("TypeError")
        ELSE Returns(DetectFeatureDrift(None, Columns(baseline_df),
                                        Columns(current_df),
                                        [f \in both |-> psi[f].value],
                                        [f \in both |-> ks[f].value[2]],
                                        threshold))

\* detect_feature_drift(x, x): a frame compared with itself
SameFrameCalls ==
    {[fn |-> "detect_feature_drift(df)", baseline_df |-> x, current_df |-> x,
      threshold |-> t, fault |-> flt, p_value |-> p] :
         x \in Frames, t \in ThresholdValues, flt \in BOOLEAN,
         p \in KsPValues}

CallDetectFrames ==
    /\ fn_call.fn = "detect_feature_drift(df)"
    /\ fn_ret = None
    /\ fn_ret' = Some(DetectOnFrames(fn_call.baseline_df, fn_call.current_df,
                                     fn_call.threshold, fn_call.fault,
                                     fn_call.p_value))
    /\ UNCHANGED fn_call

DetectCalls ==
    [fn : {"detect_feature_drift"},
     feature_names : {None} \cup {Some(n) : n \in NameLists},
     bcols : ColumnLists, ccols : ColumnLists,
     psi : [ColumnNames -> DetectPsiValues],
     ksp : [ColumnNames -> KsPValues],
     threshold : ThresholdValues]

CallDetect ==
    /\ fn_call.fn = "detect_feature_drift"
    /\ fn_ret = None
    /\ fn_ret' = Some(DetectFeatureDrift(fn_call.feature_names, fn_call.bcols,
                                         fn_call.ccols, fn_call.psi,
                                         fn_call.ksp, fn_call.threshold))
    /\ UNCHANGED fn_call

\* the most rows a query of _calculate_metrics counts
MaxPairs == 3

\* worker.py:98-109: SUM(CASE ...)::float / COUNT(*) over the join of the
\* last hour's predictions with their labels; SUM over no row is NULL and so
\* is the quotient.  A fraction is the pair <<numerator, denominator>>.
AccuracyQuery(correct, matched) ==
    IF matched = 0 THEN None ELSE Some(<<correct, matched>>)

\* Python's truth value of result[0]: None and 0.0 are false
Truthy(x) == x # None /\ x[1][1] # 0

\* worker.py:98-112: the accuracy of the metrics_history row
Accuracy(labels_count, correct, matched) ==
    IF labels_count > 0
    THEN IF Truthy(AccuracyQuery(correct, matched))
         THEN AccuracyQuery(correct, matched)
         ELSE None
    ELSE None

\* what the three SELECTs of _calculate_metrics return: the predictions of the
\* last hour, the label rows received in the last hour, and of the joined
\* pairs how many there are and how many have prediction = actual_label
MetricsCalls ==
    {x \in [fn : {"_calculate_metrics"}, pred_count : 0..MaxPairs,
            labels_count : 0..MaxPairs, matched : 0..MaxPairs,
            correct : 0..MaxPairs] : x.correct <= x.matched}

\* worker.py:114-128: the row inserted into metrics_history
CallCalculateMetrics ==
    /\ fn_call.fn = "_calculate_metrics"
    /\ fn_ret = None
    /\ fn_ret' = Some([predictions_count |-> fn_call.pred_count,
                       labels_received   |-> fn_call.labels_count,
                       accuracy |-> Accuracy(fn_call.labels_count,
                                             fn_call.correct,
                                             fn_call.matched)])
    /\ UNCHANGED fn_call

InitNoFn ==
    /\ fn_call = NoFn
    /\ fn_ret = None

(***************************************************************************)
(* Specifications                                                          *)
(***************************************************************************)
Init == InitWorker /\ InitReport /\ InitNoFn /\ InitLoop

Next ==
    \/ WorkerStep /\ UNCHANGED <<rvars, svars, qvars>>
    \/ Interrupt /\ UNCHANGED <<rvars, svars, qvars>>

Spec == Init /\ [][Next]_vars

\* The interpreter keeps executing the thread's next statement; the arrival
\* of a signal is not promised.
FairSpec == Spec /\ WF_vars(WorkerStep /\ UNCHANGED <<rvars, svars, qvars>>)

\* The worker next to a store that may leave a statement unanswered.
NextStall ==
    \/ WorkerStep /\ UNCHANGED <<rvars, svars, qvars>>
    \/ Interrupt /\ UNCHANGED <<rvars, svars, qvars>>
    \/ StoreCallBlocks /\ UNCHANGED <<rvars, svars, qvars>>

SpecStall == Init /\ [][NextStall]_vars

\* get_drift_report next to clients that make predictions; the model answers
\* "legitimate" and no feedback arrives.
NextReport ==
    \/ Tick /\ UNCHANGED <<wvars, svars, qvars>>
    \/ MakePrediction({0}) /\ UNCHANGED <<wvars, svars, qvars>>
    \/ CallReport /\ UNCHANGED <<wvars, svars, qvars>>
    \/ GetBaseline /\ UNCHANGED <<wvars, svars, qvars>>
    \/ GetCurrent /\ UNCHANGED <<wvars, svars, qvars>>
    \/ GetScores /\ UNCHANGED <<wvars, svars, qvars>>
    \/ GetPerformance /\ UNCHANGED <<wvars, svars, qvars>>
    \/ Finish /\ UNCHANGED <<wvars, svars, qvars>>
    \/ Return /\ UNCHANGED <<wvars, svars, qvars>>

SpecReport == Init /\ [][NextReport]_vars

\* Two or more report requests against one API process, next to clients that
\* make predictions.
NextConcurrent ==
    \/ Request /\ UNCHANGED <<wvars, rvars, svars>>
    \/ MakePrediction({0}) /\ UNCHANGED <<wvars, svars, qvars>>
    \/ ServeRequest /\ UNCHANGED <<wvars, svars>>
    \/ GetBaseline /\ UNCHANGED <<wvars, svars, qvars>>
    \/ GetCurrent /\ UNCHANGED <<wvars, svars, qvars>>
    \/ GetScores /\ UNCHANGED <<wvars, svars, qvars>>
    \/ GetPerformance /\ UNCHANGED <<wvars, svars, qvars>>
    \/ Finish /\ UNCHANGED <<wvars, svars, qvars>>
    \/ Respond /\ UNCHANGED <<wvars, svars>>

SpecConcurrent == Init /\ [][NextConcurrent]_vars

\* get_drift_report next to clients that make predictions stamped with the
\* start of the run, answered with either class, and that send feedback for
\* them; the features of the window are at the PSI threshold.
NextFeedback ==
    \/ MakePredictionAt({0}, {0, 1}) /\ UNCHANGED <<wvars, svars, qvars>>
    \/ SubmitFeedback /\ UNCHANGED <<wvars, svars, qvars>>
    \/ CallReport /\ UNCHANGED <<wvars, svars, qvars>>
    \/ GetBaseline /\ UNCHANGED <<wvars, svars, qvars>>
    \/ GetCurrentWith({PSI_THRESHOLD}) /\ UNCHANGED <<wvars, svars, qvars>>
    \/ GetScores /\ UNCHANGED <<wvars, svars, qvars>>
    \/ GetPerformance /\ UNCHANGED <<wvars, svars, qvars>>
    \/ Finish /\ UNCHANGED <<wvars, svars, qvars>>
    \/ Return /\ UNCHANGED <<wvars, svars, qvars>>

SpecFeedback == Init /\ [][NextFeedback]_vars

\* one call of calculate_psi or ks_test on samples of every shape, or of
\* detect_feature_drift on a frame and itself
InitStats ==
    /\ InitWorker
    /\ InitReport
    /\ InitLoop
    /\ fn_call \in PsiCalls \cup KsCalls \cup SameFrameCalls
    /\ fn_ret = None

NextStats ==
    \/ CallPsi /\ UNCHANGED <<wvars, rvars, qvars>>
    \/ CallKs /\ UNCHANGED <<wvars, rvars, qvars>>
    \/ CallDetectFrames /\ UNCHANGED <<wvars, rvars, qvars>>

SpecStats == InitStats /\ [][NextStats]_vars

\* one call of detect_feature_drift on frames and name lists of every shape
InitDetect ==
    /\ InitWorker
    /\ InitReport
    /\ InitLoop
    /\ fn_call \in DetectCalls
    /\ fn_ret = None

NextDetect == CallDetect /\ UNCHANGED <<wvars, rvars, qvars>>

SpecDetect == InitDetect /\ [][NextDetect]_vars

\* one run of the queries of _calculate_metrics with every result
InitMetrics ==
    /\ InitWorker
    /\ InitReport
    /\ InitLoop
    /\ fn_call \in MetricsCalls
    /\ fn_ret = None

NextMetrics == CallCalculateMetrics /\ UNCHANGED <<wvars, rvars, qvars>>

SpecMetrics == InitMetrics /\ [][NextMetrics]_vars

(***************************************************************************)
(* Properties of the monitoring worker                                     *)
(***************************************************************************)
AllStepsRan ==
    /\ Len(trace) >= 3
    /\ SubSeq(trace, 1, 3) = <<"metrics", "drift", "health">>

CycleFailed == failed # {} \/ commitRaised

WorkerRunning == wpc \in {"register", "loop", "sleep"}

\* C1: at most one monitoring cycle is in flight in every reachable state,
\* also while the job's next run time has passed during a running cycle; a
\* cycle runs only inside the call the main thread made.
C1_AtMostOneCycle ==
    /\ inflight <= 1
    /\ (cpc # "idle") <=> (inflight = 1)
    /\ (cpc # "idle") => wpc \in {"call_initial", "call_job"}

\* a scheduled cycle is running and a whole further interval has elapsed
C1_Witness ==
    /\ inflight = 1
    /\ wpc = "call_job"
    /\ cpc \in {"drift", "health", "commit"}
    /\ now >= next_run + MONITORING_INTERVAL

\* C2: every cycle that starts comes back to idle; after a cycle that failed
\* (a step raised or the commit raised) and was not interrupted the worker is
\* still in its loop, and it goes on to start a new cycle unless it is
\* interrupted or the clock's horizon is reached.
C2_CycleFailureIsolated ==
    /\ (cpc # "idle") ~> (cpc = "idle")
    /\ [](cpc = "idle" /\ CycleFailed /\ sigint = "none" => WorkerRunning)
    /\ (cpc = "idle" /\ CycleFailed /\ sigint = "none")
          ~> (cpc # "idle" \/ sigint # "none" \/ now >= MaxTime)

\* a failed scheduled cycle has returned and the loop is about to run the job
\* again
C2_Witness ==
    /\ cpc = "idle"
    /\ CycleFailed
    /\ InTrace("close")
    /\ wpc = "loop"
    /\ ShouldRun
    /\ sigint = "none"

\* C3: once a step has failed and the cycle is past its steps without an
\* interrupt, all three steps have been executed in that cycle; the cycle's
\* own except clause (the rollback) runs only because the commit raised,
\* never because of a step.
C3_StepFailuresIsolated ==
    /\ (failed # {} /\ cpc \in {"commit", "rollback", "close", "idle"}
          /\ sigint # "incycle") => AllStepsRan
    /\ InTrace("rollback") => commitRaised

\* the first step failed and the two others were still executed
C3_Witness ==
    /\ "metrics" \in failed
    /\ cpc = "commit"
    /\ trace = <<"metrics", "drift", "health">>

\* C4: when a cycle has ended with exactly one failed step, a commit that
\* returned and no interrupt, every row the other steps inserted is persisted.
C4_OtherRecordsPersisted ==
    (/\ cpc = "idle"
     /\ InTrace("close")
     /\ Cardinality(failed) = 1
     /\ ~commitRaised
     /\ sigint # "incycle") => wrote \subseteq persisted

\* C9: when the worker has exited because of a KeyboardInterrupt that arrived
\* during a cycle, that cycle has executed its three steps and the commit.
C9_InterruptedCycleCompletes ==
    (sigint = "incycle" /\ wpc \in {"stopped", "killed"})
        => (AllStepsRan /\ InTrace("commit"))


\* the calls of the try block, in the order of lines 46-54
CallOrder == <<"metrics", "drift", "health", "commit">>

\* the steps and the commit the latest cycle has made so far
CallsMade == SelectSeq(trace, LAMBDA c : c \in Range(CallOrder))

\* C15: in every cycle the calls made so far are a prefix of aggregate
\* metrics, drift check, system health, commit: the steps start in that
\* order, whether or not one of them failed, and the commit comes only after
\* the three of them have returned.
C15_StepOrder ==
    /\ Len(CallsMade) <= Len(CallOrder)
    /\ CallsMade = SubSeq(CallOrder, 1, Len(CallsMade))
    /\ SubSeq(trace, 1, Len(CallsMade)) = CallsMade

\* a scheduled cycle with a failed step has reached its commit
C15_Witness ==
    /\ wpc = "call_job"
    /\ failed # {}
    /\ InTrace("commit")

\* a scheduled cycle is at its first statement
JobCycleStarts == wpc = "call_job" /\ cpc = "metrics" /\ trace = <<>>

\* C16: a scheduled cycle starts no earlier than one interval after the
\* cycle before it returned, however long that cycle ran: the runs that fell
\* due during an overrunning cycle are dropped, not run back to back.
C16_OverrunTicksDropped ==
    (JobCycleStarts /\ last_cycle # None) =>
        start_time >= last_cycle[1].end + MONITORING_INTERVAL

\* a scheduled cycle starts after a scheduled cycle that ran for longer than
\* the interval
C16_Witness ==
    /\ JobCycleStarts
    /\ last_cycle # None
    /\ last_cycle[1].end - last_cycle[1].start > MONITORING_INTERVAL
    /\ last_cycle[1].start > InitialDelay

\* C17: when the commit's exception reaches the except clause of the cycle,
\* the session is rolled back and none of the records the cycle wrote is
\* persisted; the cycle after a rolled-back cycle starts on a fresh session
\* (no open or failed transaction, nothing written or persisted yet).
C17_FailedCycleRolledBack ==
    /\ (commitRaised /\ cpc \in {"close", "idle"}) =>
          /\ InTrace("rollback")
          /\ persisted = {}
          /\ pending = {}
          /\ ~aborted
    /\ (JobCycleStarts /\ last_cycle # None /\ last_cycle[1].rolled_back) =>
          /\ pending = {}
          /\ ~aborted
          /\ persisted = {}
          /\ wrote = {}

\* a scheduled cycle starts after a cycle that wrote its three records and
\* was rolled back
C17_Witness ==
    /\ JobCycleStarts
    /\ last_cycle # None
    /\ last_cycle[1].rolled_back
    /\ Cardinality(last_cycle[1].wrote) = 3

\* C24: a store call that is never answered does not stall the scheduler: the
\* worker always has a next statement to execute while a cycle waits on the
\* store (the call is given up as a failure of its step and the cycle goes on).
C24_StalledCallIsStepFailure ==
    cpc = "blocked" => ENABLED WorkerStep

\* C29: when a prediction of the last hour has a matching label, the accuracy
\* stored by _calculate_metrics is the fraction of the matched pairs whose
\* prediction equals the label, 0.0 included; it is null only when there is
\* no matched pair.
C29_StoredAccuracy ==
    (fn_ret # None /\ fn_call.fn = "_calculate_metrics") =>
        /\ fn_call.matched > 0 =>
              fn_ret[1].accuracy = Some(<<fn_call.correct, fn_call.matched>>)
        /\ fn_ret[1].accuracy = None => fn_call.matched = 0

\* C30: a monitoring cycle that has ended closed its session exactly once,
\* and before the close it had either committed successfully or rolled back:
\* not both and not neither.
C30_ClosedAfterCommitOrRollback ==
    (cpc = "idle" /\ trace # <<>>) =>
        /\ Cardinality({i \in 1..Len(trace) : trace[i] = "close"}) = 1
        /\ trace[Len(trace)] = "close"
        /\ (InTrace("commit") /\ ~commitRaised) # InTrace("rollback")

(***************************************************************************)
(* Properties of get_drift_report                                          *)
(***************************************************************************)
Returned == outcome = "report" /\ report # None

HighOrMedium(r) == r.severity \in {"medium", "high"}

\* C5: a report over a non-empty window has health critical when at least two
\* feature results have severity high, otherwise warning when a feature
\* result is drifted or the prediction drift is drifted, otherwise healthy.
C5_HealthRule ==
    (Returned /\ current # {}) =>
        LET r == report[1]
            fd == r.feature_drift
            highs == Cardinality({i \in 1..Len(fd) : fd[i].severity = "high"})
            drifted == \E i \in 1..Len(fd) : fd[i].status = "drifted"
            pdrifted == /\ r.prediction_drift # None
                        /\ r.prediction_drift[1].status = "drifted"
        IN  r.health = IF highs >= 2 THEN "critical"
                       ELSE IF drifted \/ pdrifted THEN "warning"
                       ELSE "healthy"

\* a returned report with exactly two high results: critical, although a
\* feature is drifted as well
C5_Witness ==
    /\ Returned
    /\ current # {}
    /\ report[1].health = "critical"
    /\ HighSeverityCount(report[1].feature_drift) = 2
    /\ report[1].data_drift_detected

\* C6: a returned report has health unknown exactly when the query for the
\* current window returned no row, and then it is the empty report.
C6_UnknownIffEmpty ==
    Returned =>
        LET r == report[1]
        IN  /\ (r.health = "unknown") <=> (current = {})
            /\ current = {} =>
                  /\ r.total_predictions = 0
                  /\ r.feature_drift = <<>>
                  /\ r.alerts = <<>>
                  /\ r.prediction_drift = None
            /\ current # {} => r.total_predictions = Cardinality(current)

\* the empty report of a table that holds predictions outside the window
C6_Witness ==
    /\ Returned
    /\ report[1].health = "unknown"
    /\ predictions # <<>>

\* C7: the alerts of a returned report are the feature results of severity
\* medium or high, one alert each, with that severity, in the results' order.
C7_AlertsFromSeverity ==
    Returned =>
        LET r == report[1]
            hits == SelectSeq(r.feature_drift, HighOrMedium)
        IN  /\ Len(r.alerts) = Len(hits)
            /\ \A i \in 1..Len(hits) :
                  /\ r.alerts[i].severity = hits[i].severity
                  /\ r.alerts[i].feature_name = hits[i].feature_name

\* a low result that does not alert before a high result that does
C7_Witness ==
    /\ Returned
    /\ Len(report[1].feature_drift) = 2
    /\ report[1].feature_drift[1].severity = "low"
    /\ report[1].feature_drift[2].severity = "high"
    /\ Len(report[1].alerts) = 1
    /\ report[1].alerts[1].feature_name = "hour_of_day"

\* C8: when the store fails in _store_drift_report the call still returns the
\* computed report and raises nothing.
C8_StoreFailureIsolated ==
    (stored \in {"logged", "raised"}) =>
        /\ Returned
        /\ report[1].total_predictions = Cardinality(current)
        /\ report[1].feature_drift = feature_drift

\* the store failed and a report with alerts was returned
C8_Witness ==
    /\ stored = "logged"
    /\ Returned
    /\ report[1].alerts # <<>>

\* the report fields that would tell a synthetic baseline from a persisted one
BaselineMarkerFields ==
    {"baseline_is_synthetic", "baseline_source", "synthetic_baseline",
     "baseline"}

\* C10: a returned report whose baseline came from the synthetic generator
\* carries a field that marks it.
C10_SyntheticBaselineMarked ==
    (Returned /\ baseline.source = "synthetic") =>
        (DOMAIN report[1]) \cap BaselineMarkerFields # {}

\* C11: a call of get_drift_report during which the store failed on the
\* baseline features, the current features, the prediction scores or the
\* labelled pairs ends as a server error (HTTP 500) and returns no report.
C11_StoreFailurePropagated ==
    (rpc = "done" /\ db_errors # {}) =>
        /\ HttpStatus(outcome) = 500
        /\ report = None

\* the predictions of the half-open window [start, end)
HalfOpenRows(w) ==
    {i \in 1..Len(predictions) :
        predictions[i].ts >= w[1] /\ predictions[i].ts < w[2]}

\* C13: the current sample of a call for the window [start, end) holds only
\* predictions with start <= timestamp < end, and a returned report counts in
\* total_predictions no prediction stamped exactly at end.
C13_HalfOpenWindow ==
    /\ current \subseteq HalfOpenRows(window)
    /\ Returned =>
          report[1].total_predictions <= Cardinality(HalfOpenRows(window))

PerformanceFields == {"accuracy", "precision", "recall", "f1_score", "auc_roc"}

\* C21: a returned report for a window without any (prediction, label) pair
\* has all five fields of the performance snapshot, each of them null; so has
\* the report of an empty window.
C21_NoPairsAllNull ==
    (Returned /\ LabelledPairs(window) = {}) =>
        /\ DOMAIN report[1].performance_metrics = PerformanceFields
        /\ \A k \in PerformanceFields :
              report[1].performance_metrics[k] = None

\* the labels of the window's matched pairs
PairLabels(w) == {ground_truth[g].label : g \in LabelledPairs(w)}

\* the call reads the matched pairs and the database answers
PairsRead ==
    /\ rpc = "perf"
    /\ rpc' = "finish"
    /\ db_errors' = db_errors

\* C22: when the matched pairs a call reads all carry the same label, however
\* many they are, the snapshot's auc_roc is null and its accuracy, precision,
\* recall and f1_score are computed values.
C22_AucNullOnSingleClass ==
    [][(PairsRead /\ Cardinality(PairLabels(window)) = 1) =>
          /\ performance'.auc_roc = None
          /\ performance'.accuracy # None
          /\ performance'.precision # None
          /\ performance'.recall # None
          /\ performance'.f1_score # None]_vars

\* a snapshot computed from two pairs with the same label
C22_Witness ==
    /\ rpc = "finish"
    /\ Cardinality(LabelledPairs(window)) >= 2
    /\ Cardinality(PairLabels(window)) = 1
    /\ performance.accuracy # None
    /\ performance.auc_roc = None

\* C26: each prediction of the window contributes at most one pair to the
\* performance metrics, whatever feedback was submitted for its transaction:
\* the number of pairs the accuracy is taken over is at most the number of
\* predictions of the window.
C26_OnePairPerPrediction ==
    [][(PairsRead /\ performance'.accuracy # None) =>
          performance'.accuracy[1][2] <= Cardinality(WindowRows(window))]_vars

\* C27: a report with total_predictions > 0 was computed against a baseline
\* drawn from persisted predictions, never against the synthetic baseline,
\* also when predictions are inserted between the baseline query and the
\* query of the current window.
C27_NonEmptyReportHasPersistedBaseline ==
    (Returned /\ report[1].total_predictions > 0) =>
        baseline.source = "persisted"

\* C28: the baseline sample of a report holds no prediction of the report's
\* current window.
C28_BaselineDisjointFromCurrent ==
    (Returned /\ report[1].total_predictions > 0) =>
        baseline.rows \cap current = {}

(***************************************************************************)
(* Properties of the statistical primitives                                *)
(***************************************************************************)
CleanedEmpty ==
    \/ \A i \in DOMAIN fn_call.baseline : fn_call.baseline[i].kind = "nan"
    \/ \A i \in DOMAIN fn_call.current : fn_call.current[i].kind = "nan"

NeutralResult ==
    IF fn_call.fn = "calculate_psi" THEN Returns(0) ELSE Returns(<<0, 1000>>)

\* C12: calculate_psi and ks_test give back a value for every input and never
\* raise; the value is the neutral result (PSI 0.0, KS (0.0, 1.0)) when a
\* cleaned sample is empty or a statement inside the function raised.
C12_PrimitivesNeverRaise ==
    (fn_ret # None /\ fn_call.fn \in {"calculate_psi", "ks_test"}) =>
        /\ ~fn_ret[1].raised
        /\ (CleanedEmpty \/ fn_call.fault) => fn_ret[1] = NeutralResult

Numeric(a) == \A i \in DOMAIN a : a[i].kind # "text"

\* C23: calculate_psi(x, x) is exactly 0 for every non-empty sample x of
\* numbers (missing values allowed) and every bin count; detect_feature_drift
\* on a frame of numbers and itself gives status stable and severity none for
\* every feature.
C23_PsiOfSameSampleIsZero ==
    fn_ret # None =>
        /\ (/\ fn_call.fn = "calculate_psi"
            /\ fn_call.baseline = fn_call.current
            /\ fn_call.baseline # <<>>
            /\ Numeric(fn_call.baseline)) => fn_ret[1] = Returns(0)
        /\ (/\ fn_call.fn = "detect_feature_drift(df)"
            /\ fn_call.baseline_df = fn_call.current_df
            /\ \A f \in ColumnNames :
                  Numeric(ColumnValues(fn_call.baseline_df, f))) =>
              /\ ~fn_ret[1].raised
              /\ Len(fn_ret[1].value) = Len(Columns(fn_call.baseline_df))
              /\ \A i \in DOMAIN fn_ret[1].value :
                    /\ fn_ret[1].value[i].drift_score = 0
                    /\ fn_ret[1].value[i].status = "stable"
                    /\ fn_ret[1].value[i].severity = "none"

\* a frame whose amount column holds two different numbers, compared with
\* itself through the histograms
C23_Witness ==
    /\ fn_ret # None
    /\ fn_call.fn = "detect_feature_drift(df)"
    /\ ~fn_call.fault
    /\ Len(fn_call.baseline_df) = 2
    /\ fn_call.baseline_df[1]["amount"] = Num(0)
    /\ fn_call.baseline_df[2]["amount"] = Num(2)
    /\ ~fn_ret[1].raised
    /\ Len(fn_ret[1].value) = 2

(***************************************************************************)
(* Properties of detect_feature_drift                                      *)
(***************************************************************************)
\* the results of the call
Results == fn_ret[1]

SeverityRank(sev) ==
    IF sev = "none" THEN 0
    ELSE IF sev = "low" THEN 1
    ELSE IF sev = "medium" THEN 2 ELSE 3

\* C18: every result's severity is the band of its PSI score (below 0.10
\* none, from 0.10 low, from 0.25 medium, from 0.5 high) whatever threshold
\* is configured, and of two results the one with the larger score never has
\* the lower severity.
C18_SeverityBands ==
    fn_ret # None =>
        /\ \A i \in DOMAIN Results :
              LET r == Results[i]
              IN  /\ r.drift_score < 10 => r.severity = "none"
                  /\ (r.drift_score >= 10 /\ r.drift_score < 25) =>
                        r.severity = "low"
                  /\ (r.drift_score >= 25 /\ r.drift_score < 50) =>
                        r.severity = "medium"
                  /\ r.drift_score >= 50 => r.severity = "high"
        /\ \A i, j \in DOMAIN Results :
              Results[i].drift_score <= Results[j].drift_score =>
                  SeverityRank(Results[i].severity)
                      <= SeverityRank(Results[j].severity)

\* with a threshold of 0.10, a feature at the lower edge of the medium band
\* next to one at the lower edge of the high band
C18_Witness ==
    /\ fn_ret # None
    /\ fn_call.threshold # PSI_THRESHOLD
    /\ \E i, j \in DOMAIN Results :
          /\ Results[i].drift_score = 25
          /\ Results[i].severity = "medium"
          /\ Results[j].drift_score = 50
          /\ Results[j].severity = "high"

\* C19: a result's status is drifted exactly when its PSI score is at least
\* the configured threshold; the KS p-value is in the result and has no part
\* in the status: results with equal scores have equal statuses.
C19_StatusFromPsiOnly ==
    fn_ret # None =>
        /\ \A i \in DOMAIN Results :
              /\ Results[i].status = "drifted"
                    <=> Results[i].drift_score >= fn_call.threshold
              /\ Results[i].ks_p_value = fn_call.ksp[Results[i].feature_name]
        /\ \A i, j \in DOMAIN Results :
              Results[i].drift_score = Results[j].drift_score =>
                  Results[i].status = Results[j].status

\* two stable results with the same score, one with a KS p-value below the
\* KS threshold and one without
C19_Witness ==
    /\ fn_ret # None
    /\ \E i, j \in DOMAIN Results :
          /\ Results[i].drift_score = Results[j].drift_score
          /\ Results[i].ks_p_value < KS_THRESHOLD
          /\ Results[j].ks_p_value >= KS_THRESHOLD
          /\ Results[i].status = "stable"
          /\ Results[j].status = "stable"

\* the names the call was asked for
Requested ==
    IF fn_call.feature_names = None THEN fn_call.bcols
    ELSE fn_call.feature_names[1]

InBothFrames(name) ==
    name \in Range(fn_call.bcols) /\ name \in Range(fn_call.ccols)

\* C20: the call returns, without raising, one result for every requested
\* name that is a column of both frames and none for any other name, in the
\* order of the requested names (the baseline's column order when no names
\* are given).
C20_ResultsPerRequestedFeature ==
    fn_ret # None =>
        LET names == [i \in DOMAIN Results |-> Results[i].feature_name]
        IN  names = SelectSeq(Requested, InBothFrames)

\* names given in another order than the baseline's columns, one of them in
\* neither frame, and two results
C20_Witness ==
    /\ fn_ret # None
    /\ fn_call.feature_names # None
    /\ \E k \in DOMAIN Requested : ~InBothFrames(Requested[k])
    /\ Len(Results) = 2
    /\ Len(fn_call.bcols) = 2
    /\ Results[1].feature_name = fn_call.bcols[2]
    /\ Results[2].feature_name = fn_call.bcols[1]

\* C25: for every configured threshold, a result with severity medium or high
\* has status drifted and a result with severity none or low has status
\* stable.
C25_StatusAgreesWithSeverity ==
    fn_ret # None =>
        \A i \in DOMAIN Results :
            /\ Results[i].severity \in {"medium", "high"} =>
                  Results[i].status = "drifted"
            /\ Results[i].severity \in {"none", "low"} =>
                  Results[i].status = "stable"
====
